---- MODULE Spec2Model ----
(***************************************************************************)
(* Model of ZeroOneMk1/PathGeneration: the pose-list interpolator of       *)
(* src/PathStructuresBezier.py (Path.interpolatePoints and its helpers)    *)
(* and the simulated robots of src/Robot.py (GenericRobot, IdealRobot,     *)
(* PurePursuitRobot).                                                      *)
(*                                                                         *)
(* Python floats are modelled as fixed-point integers: a length, a         *)
(* coordinate, a velocity or a curve parameter r is the integer r * F, an  *)
(* angle a (radians) is the integer a * AF.  Products and quotients round  *)
(* towards minus infinity at that resolution.                              *)
(***************************************************************************)
EXTENDS Integers, Sequences, FiniteSets, TLC

VARIABLES
    \* ---- Path (src/PathStructuresBezier.py) ----
    poses,              \* self.poses
    points,             \* self.points
    segmentDistance,    \* self.segmentDistance
    knownThetaIndexes,  \* local of interpolatePoints
    s,                  \* local of interpolatePoints: the carried spillover
    i,                  \* local of interpolatePoints: loop index, pair (i, i+1), 1-based
    pc,                 \* position inside interpolatePoints
    fault,              \* the exception that ended the call, or "none"
    entry,              \* self.points as the running call found it, and whether the poses are unchanged since the call before
    \* ---- Robot (src/Robot.py) ----
    robot,              \* which class the robot object is, and its lookahead
    traj,               \* the `points` argument of startSimulation
    rpc,                \* position inside startSimulation / computeSimulation
    rfault,             \* the exception that ended the call, or "none"
    rs,                 \* locals of computeSimulation: x, y, theta, xvel, yvel, tvel, li, ci, timestep
    simulation,         \* local `simulation`, then self.simulation
    returned,           \* return value of startSimulation, <<>> while there is none
    \* ---- Mouse, as Path.handleMouse uses it ----
    poseSelectHeading,      \* m.poseSelectHeading: the 1-based position of the selected pose, or None
    selectVectorNotHeading  \* m.selectVectorNotHeading

pathVars == <<poses, points, segmentDistance, knownThetaIndexes, s, i, pc, fault, entry>>
robotVars == <<robot, traj, rpc, rfault, rs, simulation, returned>>
mouseVars == <<poseSelectHeading, selectVectorNotHeading>>
vars == <<poses, points, segmentDistance, knownThetaIndexes, s, i, pc, fault, entry,
          robot, traj, rpc, rfault, rs, simulation, returned,
          poseSelectHeading, selectVectorNotHeading>>

(***************************************************************************)
(* Bounds and number representation                                        *)
(***************************************************************************)
F == 60             \* fixed-point resolution of lengths and curve parameters
AF == 1000          \* fixed-point resolution of angles
MaxPoses == 4       \* longest pose list drawn
PI == 3142          \* math.pi at resolution AF

None == <<>>        \* Python None, and an attribute that is not set
Some(v) == <<v>>
Val(o) == o[1]

Abs(a) == IF a < 0 THEN -a ELSE a
Min(a, b) == IF a < b THEN a ELSE b
Max(a, b) == IF a > b THEN a ELSE b

\* a * b and a / b on fixed-point numbers of resolution F
Mul(a, b) == (a * b) \div F
Div(a, b) == (a * F) \div b

RECURSIVE SqrtIter(_, _)
SqrtIter(n, r) ==
    LET r2 == (r + n \div r) \div 2
    IN  IF r2 >= r THEN r ELSE SqrtIter(n, r2)

\* math.sqrt on integers, rounded down
Sqrt(n) == IF n = 0 THEN 0 ELSE SqrtIter(n, n)

\* Utility.hypo and Utility.distance
hypo(a, b) == Sqrt(a * a + b * b)
distance(x1, y1, x2, y2) == hypo(x2 - x1, y2 - y1)

(***************************************************************************)
(* BezierCurves: cubic Bezier on the control points P1, P1+V1, P2+V2, P2   *)
(***************************************************************************)
Lerp(a, b, t) == a + Mul(b - a, t)

BezierCoord(t, c0, c1, c2, c3) ==
    LET a0 == Lerp(c0, c1, t)
        a1 == Lerp(c1, c2, t)
        a2 == Lerp(c2, c3, t)
    IN  Lerp(Lerp(a0, a1, t), Lerp(a1, a2, t), t)

GradCoord(t, c0, c1, c2, c3) ==
    LET d0 == c1 - c0
        d1 == c2 - c1
        d2 == c3 - c2
    IN  3 * Lerp(Lerp(d0, d1, t), Lerp(d1, d2, t), t)

getBezierPoint(t, P1, V1, V2, P2) ==
    << BezierCoord(t, P1[1], P1[1] + V1[1], P2[1] + V2[1], P2[1]),
       BezierCoord(t, P1[2], P1[2] + V1[2], P2[2] + V2[2], P2[2]) >>

getBezierGradient(t, P1, V1, V2, P2) ==
    << GradCoord(t, P1[1], P1[1] + V1[1], P2[1] + V2[1], P2[1]),
       GradCoord(t, P1[2], P1[2] + V1[2], P2[2] + V2[2], P2[2]) >>

(***************************************************************************)
(* Pose and Point                                                          *)
(***************************************************************************)
\* Pose.__init__ with setVectorOffset; isBreak starts False
Pose(x, y, forward_x_pt, forward_y_pt, theta) ==
    [ x |-> x, y |-> y,
      forward_x |-> forward_x_pt - x, backward_x |-> x - forward_x_pt,
      forward_y |-> forward_y_pt - y, backward_y |-> y - forward_y_pt,
      theta |-> theta, isBreak |-> FALSE ]

\* Point.__init__: no theta attribute until interpolateTheta sets one
Point(x, y) == [ x |-> x, y |-> y, theta |-> None ]

(***************************************************************************)
(* Path.interpolateSplineCurve                                             *)
(***************************************************************************)
\* the while loop of lines 348-354; last = <<x, y>> of the last emitted point
RECURSIVE SplineWalk(_, _, _, _, _, _, _, _)
SplineWalk(ns, pts, last, P1, V1, V2, P2, segD) ==
    IF ns < F
    THEN LET xy == getBezierPoint(ns, P1, V1, V2, P2)
             g == getBezierGradient(ns, P1, V1, V2, P2)
             h == hypo(g[1], g[2])
         IN  IF h = 0
             THEN [ points |-> Append(pts, Point(xy[1], xy[2])), last |-> Some(xy),
                    fault |-> "ZeroDivisionError" ]
             ELSE SplineWalk(ns + Div(segD, h), Append(pts, Point(xy[1], xy[2])),
                             Some(xy), P1, V1, V2, P2, segD)
    ELSE [ points |-> pts, last |-> last, fault |-> "none" ]

\* line 346: what the segment hands on when it is shorter than the spillover
NoPointSpillover(ns) == ns - F

\* result: the new self.points, the returned spillover, the exception raised
interpolateSplineCurve(ps, pts, k, sp, segD) ==
    LET P1 == << ps[k].x, ps[k].y >>
        V1 == << ps[k].forward_x, ps[k].forward_y >>
        V2 == << ps[k+1].backward_x, ps[k+1].backward_y >>
        P2 == << ps[k+1].x, ps[k+1].y >>
        g0 == getBezierGradient(0, P1, V1, V2, P2)
        h0 == hypo(g0[1], g0[2])
        ns == IF sp = 0 THEN 0 ELSE Div(sp, h0)
    IN  IF sp # 0 /\ h0 = 0
        THEN [ points |-> pts, s |-> sp, fault |-> "ZeroDivisionError" ]
        ELSE IF sp # 0 /\ ns > F
        THEN [ points |-> pts, s |-> NoPointSpillover(ns), fault |-> "none" ]
        ELSE LET w == SplineWalk(ns, pts, None, P1, V1, V2, P2, segD)
             IN  IF w.fault # "none"
                 THEN [ points |-> w.points, s |-> sp, fault |-> w.fault ]
                 ELSE IF w.last = None
                 THEN [ points |-> w.points, s |-> sp, fault |-> "UnboundLocalError" ]
                 ELSE [ points |-> w.points,
                        s |-> segD - distance(Val(w.last)[1], Val(w.last)[2], P2[1], P2[2]),
                        fault |-> "none" ]

(***************************************************************************)
(* Path.interpolateTheta                                                   *)
(***************************************************************************)
\* Python list indexing: the 1-based position of index idx, 0 when out of range
PyIndex(len, idx) ==
    IF idx >= 0 /\ idx < len THEN idx + 1
    ELSE IF idx < 0 /\ idx >= -len THEN len + idx + 1
    ELSE 0

\* lines 369-373 without the elif branch
AdjustTheta2_NoElif(theta1, theta2) ==
    IF theta2 - theta1 >= PI THEN theta2 - 2 * PI ELSE theta2

\* lines 369-373: theta2 moved by a full turn towards theta1
AdjustTheta2(theta1, theta2) ==
    IF theta2 - theta1 >= PI THEN theta2 - 2 * PI
    ELSE IF theta1 - theta2 >= PI THEN theta2 + 2 * PI
    ELSE theta2

\* line 375: theta1 + (theta2adjusted - theta1) * (i / (i2-i1)), for i2 > i1
ThetaAt(theta1, theta2adjusted, k, span) ==
    theta1 + ((theta2adjusted - theta1) * ((k * F) \div span)) \div F

\* lines 367-375: for i in range(0, i2-i1+1), from i = k on
RECURSIVE ThetaSpan(_, _, _, _, _, _)
ThetaSpan(pts, i1, theta1, i2, theta2, k) ==
    IF k > i2 - i1
    THEN [ points |-> pts, fault |-> "none" ]
    ELSE IF i2 - i1 = 0
    THEN [ points |-> pts, fault |-> "ZeroDivisionError" ]
    ELSE LET at == PyIndex(Len(pts), i1 + k)
         IN  IF at = 0
             THEN [ points |-> pts, fault |-> "IndexError" ]
             ELSE ThetaSpan(
                    [ pts EXCEPT ![at].theta =
                        Some(ThetaAt(theta1, AdjustTheta2(theta1, theta2), k, i2 - i1)) ],
                    i1, theta1, i2, theta2, k + 1)

\* lines 381-382: for index in range(i1, len(self.points)), from index on
RECURSIVE ThetaTail(_, _, _)
ThetaTail(pts, index, theta1) ==
    IF index >= Len(pts)
    THEN [ points |-> pts, fault |-> "none" ]
    ELSE LET at == PyIndex(Len(pts), index)
         IN  IF at = 0
             THEN [ points |-> pts, fault |-> "IndexError" ]
             ELSE ThetaTail([ pts EXCEPT ![at].theta = Some(theta1) ], index + 1, theta1)

\* lines 364-382: the anchors from position ki on, with i1, theta1 the anchor before
RECURSIVE ThetaAnchors(_, _, _, _, _)
ThetaAnchors(pts, known, ki, i1, theta1) ==
    IF ki > Len(known)
    THEN ThetaTail(pts, i1, theta1)
    ELSE LET i2 == known[ki][1]
             theta2 == known[ki][2]
             r == ThetaSpan(pts, i1, theta1, i2, theta2, 0)
         IN  IF r.fault # "none" THEN r
             ELSE ThetaAnchors(r.points, known, ki + 1, i2, theta2)

\* result: the new self.points and the exception raised
interpolateTheta(pts, known) ==
    IF Len(known) = 0
    THEN [ points |-> pts, fault |-> "IndexError" ]
    ELSE IF known[1][1] # 0
    THEN [ points |-> pts, fault |-> "AssertionError" ]
    ELSE ThetaAnchors(pts, known, 2, known[1][1], known[1][2])

(***************************************************************************)
(* Path.interpolatePoints, one action per stretch of the call              *)
(***************************************************************************)
\* line 387 left out: the call appends to what self.points held
ResetPoints_Keep(pts) == pts

\* line 387: self.points = []
ResetPoints(pts) == << >>

\* line 397: both poses of the pair at the same position
SamePosition(ps, k) == ps[k].x = ps[k+1].x /\ ps[k].y = ps[k+1].y

\* lines 387-394: the call starts; rerun tells a call on an unchanged pose list
interpolatePoints_start ==
    /\ pc \in {"idle", "done"}
    /\ entry' = [ points |-> points, rerun |-> (pc = "done") ]
    /\ points' = ResetPoints(points)
    /\ knownThetaIndexes' = << >>
    /\ fault' = "none"
    /\ IF Len(poses) < 2
       THEN pc' = "done" /\ UNCHANGED <<s, i>>
       ELSE pc' = "loop" /\ s' = 0 /\ i' = 1
    /\ UNCHANGED <<poses, segmentDistance>>
    /\ UNCHANGED robotVars
    /\ UNCHANGED mouseVars

\* lines 397-398: the pair (i, i+1) is skipped
interpolatePoints_skip ==
    /\ pc = "loop"
    /\ SamePosition(poses, i)
    /\ i' = i + 1
    /\ pc' = IF i + 1 > Len(poses) - 1 THEN "theta" ELSE "loop"
    /\ UNCHANGED entry
    /\ UNCHANGED <<poses, points, segmentDistance, knownThetaIndexes, s, fault>>
    /\ UNCHANGED robotVars
    /\ UNCHANGED mouseVars

\* lines 400-409: the pair (i, i+1) is interpolated
interpolatePoints_segment ==
    /\ pc = "loop"
    /\ ~ SamePosition(poses, i)
    /\ LET r == interpolateSplineCurve(poses, points, i, s, segmentDistance)
       IN  /\ knownThetaIndexes' =
                IF poses[i].theta # None
                THEN Append(knownThetaIndexes, << Len(points), Val(poses[i].theta) >>)
                ELSE knownThetaIndexes
           /\ points' = r.points
           /\ fault' = r.fault
           /\ IF r.fault # "none"
              THEN pc' = "fault" /\ UNCHANGED <<s, i>>
              ELSE /\ s' = IF poses[i+1].isBreak THEN 0 ELSE r.s
                   /\ i' = i + 1
                   /\ pc' = IF i + 1 > Len(poses) - 1 THEN "theta" ELSE "loop"
    /\ UNCHANGED entry
    /\ UNCHANGED <<poses, segmentDistance>>
    /\ UNCHANGED robotVars
    /\ UNCHANGED mouseVars

\* lines 411-417: the anchor of the last pose, then the heading pass
interpolatePoints_theta ==
    /\ pc = "theta"
    /\ LET last == poses[Len(poses)]
           known == IF last.theta # None
                    THEN Append(knownThetaIndexes, << Len(points) - 1, Val(last.theta) >>)
                    ELSE knownThetaIndexes
           r == interpolateTheta(points, known)
       IN  /\ knownThetaIndexes' = known
           /\ points' = r.points
           /\ fault' = r.fault
           /\ pc' = IF r.fault # "none" THEN "fault" ELSE "done"
    /\ UNCHANGED <<poses, segmentDistance, s, i, entry>>
    /\ UNCHANGED robotVars
    /\ UNCHANGED mouseVars

(***************************************************************************)
(* The interpolator on the pose lists an editing session can leave behind  *)
(***************************************************************************)
\* distances between consecutive poses, tangent handles and sampling distances drawn
Steps == {0, 3 * F}
Tangents == { <<F, 0>>, <<3 * F, 3 * F>> }
SegmentDistances == {2 * F, 5 * F}
Headings == { None, Some(PI \div 2) }

RECURSIVE XAt(_, _)
XAt(steps, k) == IF k = 1 THEN 0 ELSE XAt(steps, k - 1) + steps[k]

\* Path.__init__ with poses as the editing operations of lines 134-313 leave them:
\* the first pose with the heading addPose gives it, every pose on the x axis
InitPath ==
    \E n \in 0..MaxPoses :
    \E steps \in [1..n -> Steps], heads \in [1..n -> Headings],
       breaks \in [1..n -> BOOLEAN], tangent \in Tangents :
        /\ n >= 1 => (steps[1] = 0 /\ heads[1] = None /\ ~ breaks[1])
        /\ poses = [ k \in 1..n |->
                       [ Pose(XAt(steps, k), 0, XAt(steps, k) + tangent[1], tangent[2],
                              IF k = 1 THEN Some(-(PI \div 2)) ELSE heads[k])
                         EXCEPT !.isBreak = breaks[k] ] ]
        /\ points = << >>
        /\ segmentDistance \in SegmentDistances
        /\ knownThetaIndexes = << >>
        /\ s = 0
        /\ i = 0
        /\ pc = "idle"
        /\ fault = "none"
        /\ entry = [ points |-> << >>, rerun |-> FALSE ]

MouseUnused ==
    /\ poseSelectHeading = None
    /\ selectVectorNotHeading = FALSE

RobotUnused ==
    /\ robot = [ kind |-> "none", lookahead |-> 0 ]
    /\ traj = << >>
    /\ rpc = "unused"
    /\ rfault = "none"
    /\ rs = << >>
    /\ simulation = << >>
    /\ returned = None

InitInterp == InitPath /\ RobotUnused /\ MouseUnused

NextInterp ==
    \/ interpolatePoints_start
    \/ interpolatePoints_skip
    \/ interpolatePoints_segment
    \/ interpolatePoints_theta

SpecInterp == InitInterp /\ [][NextInterp]_vars

(***************************************************************************)
(* The heading pass on its own: interpolateTheta on drawn anchor lists     *)
(***************************************************************************)
MaxPoints == 4      \* longest trajectory drawn
MaxAnchors == 3     \* longest anchor list drawn

\* headings in [-pi, pi], the range of math.atan2 (line 156)
ThetaValues == { -PI, -(PI \div 2), -1, 0, 2 * AF, PI \div 2, PI }

\* lines 360-382 as one call
interpolateTheta_call ==
    /\ pc = "anchors"
    /\ LET r == interpolateTheta(points, knownThetaIndexes)
       IN  /\ points' = r.points
           /\ fault' = r.fault
           /\ pc' = IF r.fault # "none" THEN "fault" ELSE "done"
    /\ UNCHANGED <<poses, segmentDistance, knownThetaIndexes, s, i, entry>>
    /\ UNCHANGED robotVars
    /\ UNCHANGED mouseVars

\* anchor lists as interpolatePoints hands them over: index 0 first, indices not
\* decreasing and inside the trajectory
InitTheta ==
    /\ \E n \in 1..MaxPoints, m \in 1..MaxAnchors :
       \E idx \in [1..m -> 0..(n - 1)], th \in [1..m -> ThetaValues] :
            /\ idx[1] = 0
            /\ \A k \in 1..(m - 1) : idx[k] <= idx[k + 1]
            /\ points = [ k \in 1..n |-> Point((k - 1) * F, 0) ]
            /\ knownThetaIndexes = [ k \in 1..m |-> << idx[k], th[k] >> ]
    /\ poses = << >>
    /\ segmentDistance = 2 * F
    /\ s = 0
    /\ i = 0
    /\ pc = "anchors"
    /\ fault = "none"
    /\ entry = [ points |-> << >>, rerun |-> FALSE ]
    /\ RobotUnused
    /\ MouseUnused

NextTheta == interpolateTheta_call

SpecTheta == InitTheta /\ [][NextTheta]_vars

(***************************************************************************)
(* Robot.py: constants                                                     *)
(***************************************************************************)
StepsPerSecond == 50                            \* 1 / STEP_TIME
K_P_TRANS == 30
K_P_ROT == 1
STOP_DISTANCE_THRESHOLD == F                    \* 1 inch
POSITION_NOISE == F \div 10                     \* 0.1 inch
MAX_TRANS_ACCEL == (120 * F) \div StepsPerSecond    \* lines 9 and 14
MAX_ROT_ACCEL == (100 * AF) \div StepsPerSecond     \* lines 10 and 15
MAX_SPEED == 60 * F
SETTLED_SPEED == 5                              \* the 5 of line 146
SEARCH_WINDOW == 30                             \* the 30 of line 152
\* the step ceiling of line 130; the source sets 50000, the model runs the same
\* comparison against a ceiling small enough to reach
MAX_TIMESTEPS == 2

\* the values random.triangular(-POSITION_NOISE, POSITION_NOISE) is drawn from
Noise == { -POSITION_NOISE, POSITION_NOISE }

\* Utility.clamp
clamp(v, lo, hi) == IF v < lo THEN lo ELSE IF v > hi THEN hi ELSE v

\* math.atan on [0, 1], at resolution AF (error below 0.004 rad)
AtanUnit(z) == ((PI \div 4) * z) \div F + (((273 * AF) \div 1000) * z * (F - z)) \div (F * F)

\* math.atan2
atan2(y, x) ==
    IF x = 0 /\ y = 0 THEN 0
    ELSE LET ax == Abs(x)
             ay == Abs(y)
             first == IF ax >= ay THEN AtanUnit(Div(ay, ax))
                      ELSE (PI \div 2) - AtanUnit(Div(ax, ay))
         IN  IF x >= 0 THEN (IF y >= 0 THEN first ELSE -first)
             ELSE (IF y >= 0 THEN PI - first ELSE first - PI)

(***************************************************************************)
(* SimulationPoint, GenericRobot.startSimulation                           *)
(***************************************************************************)
\* SimulationPoint.__init__: x, y, theta and whatever keyword arguments came
SimulationPoint(x, y, theta, kwargs) == [ x |-> x, y |-> y, theta |-> theta ] @@ kwargs

\* lines 43-46: the curve of the interior point at 0-based index k
Curve(pts, k) ==
    LET angle == atan2(pts[k+2].y - pts[k].y, pts[k+2].x - pts[k].x)
                 - atan2(pts[k+1].y - pts[k].y, pts[k+1].x - pts[k].x)
    IN  Abs(IF angle > PI THEN angle - 2 * PI ELSE angle)

\* lines 40-46 on a non-empty list
WithCurves(pts) ==
    [ k \in 1..Len(pts) |->
        [ pts[k] EXCEPT !.curve =
            IF k = 1 \/ k = Len(pts) THEN Some(0) ELSE Some(Curve(pts, k - 1)) ] ]

\* lines 40-46: points[0] of an empty list raises
startSimulation_curvature ==
    /\ rpc = "call"
    /\ IF Len(traj) = 0
       THEN /\ rfault' = "IndexError"
            /\ rpc' = "fault"
            /\ UNCHANGED traj
       ELSE /\ traj' = WithCurves(traj)
            /\ rpc' = "compute"
            /\ UNCHANGED rfault
    /\ UNCHANGED <<robot, rs, simulation, returned>>
    /\ UNCHANGED pathVars
    /\ UNCHANGED mouseVars

(***************************************************************************)
(* IdealRobot                                                              *)
(***************************************************************************)
\* line 98 with x and y exchanged
IdealSimulationPoint_Swapped(p) == SimulationPoint(p.y, p.x, p.theta, << >>)

\* line 98: one SimulationPoint per trajectory point
IdealSimulationPoint(p) == SimulationPoint(p.x, p.y, p.theta, << >>)

\* lines 48-49 with IdealRobot.computeSimulation
IdealRobot_computeSimulation ==
    /\ rpc = "compute"
    /\ robot.kind = "ideal"
    /\ simulation' = [ k \in 1..Len(traj) |-> IdealSimulationPoint(traj[k]) ]
    /\ returned' = Some(Len(traj))
    /\ rpc' = "returned"
    /\ UNCHANGED <<robot, traj, rfault, rs>>
    /\ UNCHANGED pathVars
    /\ UNCHANGED mouseVars

(***************************************************************************)
(* PurePursuitRobot                                                        *)
(***************************************************************************)
\* lines 118-123: the scan from 0-based index k up to end, exclusive
RECURSIVE ClosestScan(_, _, _, _, _, _, _)
ClosestScan(pts, x, y, k, end, minIndex, minDist) ==
    IF k < end
    THEN LET dist == distance(x, y, pts[k+1].x, pts[k+1].y)
         IN  IF dist < minDist
             THEN ClosestScan(pts, x, y, k + 1, end, k, dist)
             ELSE ClosestScan(pts, x, y, k + 1, end, minIndex, minDist)
    ELSE minIndex

\* line 113: where the scan ends
ScanEnd(pts, end) == Min(end, Len(pts) - 1)

\* PurePursuitRobot.findClosestPoint, start inside the list
findClosestPoint(pts, x, y, start, end) ==
    LET first == Max(start, 0)
    IN  ClosestScan(pts, x, y, first + 1, ScanEnd(pts, end), first,
                    distance(x, y, pts[first+1].x, pts[first+1].y))

\* lines 155-156 with an if in place of the while
LookaheadAdvance_Once(pts, li, ci, lookahead) ==
    IF /\ li < Len(pts) - 1
       /\ distance(pts[li+1].x, pts[li+1].y, pts[ci+1].x, pts[ci+1].y) < lookahead
    THEN li + 1
    ELSE li

\* lines 155-156: the lookahead index after the advance
RECURSIVE LookaheadAdvance(_, _, _, _)
LookaheadAdvance(pts, li, ci, lookahead) ==
    IF /\ li < Len(pts) - 1
       /\ distance(pts[li+1].x, pts[li+1].y, pts[ci+1].x, pts[ci+1].y) < lookahead
    THEN LookaheadAdvance(pts, li + 1, ci, lookahead)
    ELSE li

\* line 146: the condition of the while loop
KeepRunning ==
    \/ rs.li # Len(traj) - 1
    \/ distance(traj[Len(traj)].x, traj[Len(traj)].y, rs.x, rs.y) > STOP_DISTANCE_THRESHOLD
    \/ Abs(rs.xvel) > SETTLED_SPEED * F
    \/ Abs(rs.yvel) > SETTLED_SPEED * F
    \/ Abs(rs.tvel) > SETTLED_SPEED * AF

\* line 148: the ceiling test inside the loop
CeilingHit(timestep) == timestep > MAX_TIMESTEPS

\* lines 130-144: the start pose with its noise
PurePursuit_start ==
    /\ rpc = "compute"
    /\ robot.kind = "pursuit"
    /\ \E nx \in Noise, ny \in Noise :
          rs' = [ x |-> traj[1].x + 10 * nx, y |-> traj[1].y + 10 * ny,
                  theta |-> traj[1].theta,
                  xvel |-> 0, yvel |-> 0, tvel |-> 0,
                  li |-> 0, ci |-> 0, timestep |-> 0 ]
    /\ simulation' = << >>
    /\ rpc' = "while"
    /\ UNCHANGED <<robot, traj, rfault, returned>>
    /\ UNCHANGED pathVars
    /\ UNCHANGED mouseVars

\* lines 146-189: one pass of the while loop
PurePursuit_step ==
    /\ rpc = "while"
    /\ KeepRunning
    /\ ~ CeilingHit(rs.timestep)
    /\ \E nx \in Noise, ny \in Noise :
        LET ci == findClosestPoint(traj, rs.x, rs.y, rs.ci, rs.ci + SEARCH_WINDOW)
            li == LookaheadAdvance(traj, rs.li, ci, robot.lookahead)
            rawX == (traj[li+1].x - rs.x) * K_P_TRANS
            rawY == (traj[li+1].y - rs.y) * K_P_TRANS
            mag == hypo(rawX, rawY)
        IN  IF mag = 0
            THEN /\ rfault' = "ZeroDivisionError"
                 /\ rpc' = "fault"
                 /\ rs' = [ rs EXCEPT !.ci = ci, !.li = li ]
                 /\ UNCHANGED simulation
            ELSE LET scalar == Min(F, Div(MAX_SPEED, mag))
                     targetXVel == Mul(rawX, scalar)
                     targetYVel == Mul(rawY, scalar)
                     wrapped == (traj[li+1].theta - rs.theta) % (2 * PI)
                     dtheta == IF wrapped > PI THEN wrapped - 2 * PI ELSE wrapped
                     targetTVel == dtheta * K_P_ROT
                     xvel == rs.xvel + clamp(targetXVel - rs.xvel, -MAX_TRANS_ACCEL, MAX_TRANS_ACCEL)
                     yvel == rs.yvel + clamp(targetYVel - rs.yvel, -MAX_TRANS_ACCEL, MAX_TRANS_ACCEL)
                     tvel == rs.tvel + clamp(targetTVel - rs.tvel, -MAX_ROT_ACCEL, MAX_ROT_ACCEL)
                     x == rs.x + xvel \div StepsPerSecond + nx
                     y == rs.y + yvel \div StepsPerSecond + ny
                     theta == rs.theta + tvel \div StepsPerSecond
                 IN  /\ rs' = [ x |-> x, y |-> y, theta |-> theta,
                                xvel |-> xvel, yvel |-> yvel, tvel |-> tvel,
                                li |-> li, ci |-> ci, timestep |-> rs.timestep + 1 ]
                     /\ simulation' = Append(simulation,
                            SimulationPoint(x, y, theta,
                                [ xvel |-> xvel, yvel |-> yvel, tvel |-> tvel,
                                  cx |-> traj[ci+1].x, cy |-> traj[ci+1].y,
                                  lx |-> traj[li+1].x, ly |-> traj[li+1].y,
                                  curve |-> traj[li+1].curve ]))
                     /\ UNCHANGED <<rfault, rpc>>
    /\ UNCHANGED <<robot, traj, returned>>
    /\ UNCHANGED pathVars
    /\ UNCHANGED mouseVars

\* lines 146-149, 191 and 48-49: the loop ends and startSimulation returns
PurePursuit_return ==
    /\ rpc = "while"
    /\ (~ KeepRunning) \/ CeilingHit(rs.timestep)
    /\ returned' = Some(Len(simulation))
    /\ rpc' = "returned"
    /\ UNCHANGED <<robot, traj, rfault, rs, simulation>>
    /\ UNCHANGED pathVars
    /\ UNCHANGED mouseVars

(***************************************************************************)
(* The robots on drawn trajectories                                        *)
(***************************************************************************)
TrajectoryPoint(x, y, theta) == [ x |-> x * F, y |-> y * F, theta |-> theta, curve |-> None ]

Trajectories ==
    { << >>,
      << TrajectoryPoint(0, 0, 0) >>,
      << TrajectoryPoint(0, 0, 0), TrajectoryPoint(1, 0, 0) >>,
      << TrajectoryPoint(0, 0, 0), TrajectoryPoint(5, 0, 0), TrajectoryPoint(10, 0, PI \div 2) >>,
      << TrajectoryPoint(0, 0, 0), TrajectoryPoint(5, 0, 0), TrajectoryPoint(5, 5, PI \div 2),
         TrajectoryPoint(0, 5, PI) >>,
      << TrajectoryPoint(0, 0, -(PI \div 2)), TrajectoryPoint(5, 0, 0), TrajectoryPoint(0, 1, 0),
         TrajectoryPoint(5, 1, 0) >>,
      << TrajectoryPoint(0, 0, 0), TrajectoryPoint(-1, 1, 0), TrajectoryPoint(-1, -1, 0) >> }

Lookaheads == { 2 * F, 8 * F }

PathUnused ==
    /\ poses = << >>
    /\ points = << >>
    /\ segmentDistance = 2 * F
    /\ knownThetaIndexes = << >>
    /\ s = 0
    /\ i = 0
    /\ pc = "unused"
    /\ fault = "none"
    /\ entry = [ points |-> << >>, rerun |-> FALSE ]

InitRobot ==
    /\ \/ robot = [ kind |-> "ideal", lookahead |-> 0 ]
       \/ \E l \in Lookaheads : robot = [ kind |-> "pursuit", lookahead |-> l ]
    /\ traj \in Trajectories
    /\ rpc = "call"
    /\ rfault = "none"
    /\ rs = << >>
    /\ simulation = None
    /\ returned = None
    /\ PathUnused
    /\ MouseUnused

NextRobot ==
    \/ startSimulation_curvature
    \/ IdealRobot_computeSimulation
    \/ PurePursuit_start
    \/ PurePursuit_step
    \/ PurePursuit_return

SpecRobot == InitRobot /\ [][NextRobot]_vars

(***************************************************************************)
(* Claims about the interpolator                                           *)
(***************************************************************************)
\* C3: in interpolatePoints, when the pose at i+1 is a break and is not the last
\* pose, the spillover carried into the pair (i+1, i+2) is 0, whatever the pairs
\* before it are.  (Here i is the pair about to be processed, poses[i] its first
\* pose.)
C3_BreakCarriesNoSpillover ==
    (pc = "loop" /\ i >= 2 /\ poses[i].isBreak /\ ~ SamePosition(poses, i)) => s = 0

\* C4: a pose list of at least 2 poses whose first pose has a heading and which
\* holds a pair of consecutive poses at the same position is interpolated
\* without a fault, and the call ends with a heading on every emitted point.
HasCoincidentPair == \E k \in 1..(Len(poses) - 1) : SamePosition(poses, k)

C4_CoincidentPairIsHarmless ==
    (Len(poses) >= 2 /\ poses[1].theta # None /\ HasCoincidentPair)
        => /\ pc # "fault"
           /\ pc = "done" => \A k \in 1..Len(points) : points[k].theta # None

\* C7: interpolatePoints called again on an unchanged pose list, whatever
\* self.points holds from the call before, ends as that call did and leaves the
\* same trajectory: same points, in the same order, with the same headings.
C7_RerunIsIdempotent ==
    (entry.rerun /\ pc \in {"done", "fault"}) => (pc = "done" /\ points = entry.points)

C7_Witness ==
    /\ pc = "done" /\ entry.rerun
    /\ Len(points) >= 3
    /\ \A k \in 1..Len(points) : points[k].theta # None

\* C10: when the spillover s carried into a straight segment of uniform
\* parametric speed exceeds the segment's length L, interpolateSplineCurve emits
\* no point and returns s - L.
UniformStraight(k) ==
    /\ ~ SamePosition(poses, k)
    /\ 3 * poses[k].forward_x = poses[k+1].x - poses[k].x
    /\ 3 * poses[k].forward_y = poses[k+1].y - poses[k].y
    /\ 3 * poses[k+1].backward_x = poses[k].x - poses[k+1].x
    /\ 3 * poses[k+1].backward_y = poses[k].y - poses[k+1].y

SegmentLength(k) == distance(poses[k].x, poses[k].y, poses[k+1].x, poses[k+1].y)

C10_ShortSegmentHandsOnTheRest ==
    [][ ( /\ interpolatePoints_segment
          /\ UniformStraight(i)
          /\ s > SegmentLength(i)
          /\ ~ poses[i+1].isBreak )
        => ( points' = points /\ s' = s - SegmentLength(i) ) ]_vars

(***************************************************************************)
(* Claims about the heading pass                                           *)
(***************************************************************************)
AnchorIndex(k) == knownThetaIndexes[k][1]
AnchorTheta(k) == knownThetaIndexes[k][2]
AnchorPairs == 1..(Len(knownThetaIndexes) - 1)

\* C5, as stated: for consecutive anchors (i1, theta1), (i2, theta2) the adjusted
\* target is less than pi away from theta1, and every point of [i1, i2] has the
\* heading theta1 + (theta2adjusted - theta1) * (i - i1) / (i2 - i1).
C5_AsStated ==
    pc = "done" =>
        \A k \in AnchorPairs :
            LET adj == AdjustTheta2(AnchorTheta(k), AnchorTheta(k + 1))
            IN  /\ Abs(adj - AnchorTheta(k)) < PI
                /\ \A idx \in AnchorIndex(k)..AnchorIndex(k + 1) :
                      points[idx + 1].theta =
                          Some(ThetaAt(AnchorTheta(k), adj, idx - AnchorIndex(k),
                                       AnchorIndex(k + 1) - AnchorIndex(k)))

\* C5, amended: the adjusted target is at most pi away from theta1, every point
\* of [i1, i2) has the interpolated heading, and the point at i2 has theta2
\* itself.
C5_ShortArc ==
    pc = "done" =>
        \A k \in AnchorPairs :
            LET adj == AdjustTheta2(AnchorTheta(k), AnchorTheta(k + 1))
            IN  /\ Abs(adj - AnchorTheta(k)) <= PI
                /\ \A idx \in AnchorIndex(k)..(AnchorIndex(k + 1) - 1) :
                      /\ points[idx + 1].theta =
                            Some(ThetaAt(AnchorTheta(k), adj, idx - AnchorIndex(k),
                                         AnchorIndex(k + 1) - AnchorIndex(k)))
                      /\ Abs(Val(points[idx + 1].theta) - AnchorTheta(k)) <= PI
                /\ points[AnchorIndex(k + 1) + 1].theta = Some(AnchorTheta(k + 1))

\* a finished pass with a wrapped pair of anchors two or more points apart
C5_Witness ==
    /\ pc = "done"
    /\ \E k \in AnchorPairs :
          /\ AnchorIndex(k + 1) - AnchorIndex(k) >= 2
          /\ AdjustTheta2(AnchorTheta(k), AnchorTheta(k + 1)) # AnchorTheta(k + 1)

(***************************************************************************)
(* Claims about the robots                                                 *)
(***************************************************************************)
\* C1: startSimulation on an empty trajectory does not fail; it returns 0 and
\* leaves an empty simulation, for the ideal and for the pursuit robot.
C1_EmptyTrajectoryReturnsZero ==
    Len(traj) = 0 =>
        /\ rpc # "fault"
        /\ rpc = "returned" => (returned = Some(0) /\ Len(simulation) = 0)

\* C2, as stated: on a non-empty trajectory the ideal robot returns the number
\* of trajectory points, the k-th simulation point has the position and heading
\* of the k-th trajectory point, and it reports zero for xvel, yvel and tvel.
IdealReturned == rpc = "returned" /\ robot.kind = "ideal" /\ Len(traj) >= 1

CopiesTrajectory ==
    /\ returned = Some(Len(traj))
    /\ Len(simulation) = Len(traj)
    /\ \A k \in 1..Len(traj) :
          /\ simulation[k].x = traj[k].x
          /\ simulation[k].y = traj[k].y
          /\ simulation[k].theta = traj[k].theta

C2_AsStated ==
    IdealReturned =>
        /\ CopiesTrajectory
        /\ \A k \in 1..Len(simulation) :
              /\ {"xvel", "yvel", "tvel"} \subseteq DOMAIN simulation[k]
              /\ simulation[k].xvel = 0
              /\ simulation[k].yvel = 0
              /\ simulation[k].tvel = 0

\* C2, amended: as above, but the simulation points carry x, y and theta only;
\* they have no velocity attributes at all.
C2_IdealCopiesTrajectory ==
    IdealReturned =>
        /\ CopiesTrajectory
        /\ \A k \in 1..Len(simulation) : DOMAIN simulation[k] = {"x", "y", "theta"}

C2_Witness ==
    /\ IdealReturned
    /\ Len(simulation) >= 3
    /\ \E k \in 1..Len(simulation) : simulation[k].x # simulation[k].y

\* the index an unrestricted search over the whole trajectory finds, ties to the
\* lowest index
FullClosest(pts, x, y) ==
    CHOOSE k \in 0..(Len(pts) - 1) :
        \A j \in 0..(Len(pts) - 1) :
            LET dk == distance(x, y, pts[k+1].x, pts[k+1].y)
                dj == distance(x, y, pts[j+1].x, pts[j+1].y)
            IN  dk < dj \/ (dk = dj /\ k <= j)

\* C6: in a step of the pursuit loop, when the closest trajectory index lies in
\* [ci, ci+30), findClosestPoint(points, x, y, ci, ci+30) finds that index.
C6_WindowFindsClosest ==
    [][ ( /\ PurePursuit_step
          /\ FullClosest(traj, rs.x, rs.y) >= rs.ci
          /\ FullClosest(traj, rs.x, rs.y) < rs.ci + SEARCH_WINDOW )
        => rs'.ci = FullClosest(traj, rs.x, rs.y) ]_vars

\* C8: the pursuit run ends, and the trace it returns never has more than
\* MAX_TIMESTEPS entries.
C8_TraceWithinCeiling ==
    (robot.kind = "pursuit" /\ rpc \in {"while", "returned"})
        => Len(simulation) <= MAX_TIMESTEPS

\* C9, as stated: after the lookahead advance of a step, li is at least its old
\* value and at most len(points)-1, and unless li is the last index, li >= ci
\* and points[li] is at least the lookahead radius away from points[ci].
LookaheadKept ==
    /\ rs'.li >= rs.li
    /\ rs'.li <= Len(traj) - 1
    /\ rs'.li # Len(traj) - 1 =>
          distance(traj[rs'.li + 1].x, traj[rs'.li + 1].y,
                   traj[rs'.ci + 1].x, traj[rs'.ci + 1].y) >= robot.lookahead

C9_AsStated ==
    [][ PurePursuit_step =>
          /\ LookaheadKept
          /\ rs'.li # Len(traj) - 1 => rs'.li >= rs'.ci ]_vars

\* C9, amended: the same without li >= ci: the lookahead point never retreats,
\* stays inside the trajectory and, unless it is the last point, is at least the
\* lookahead radius away from the closest point, on either side of it.
C9_LookaheadKept ==
    [][ PurePursuit_step => LookaheadKept ]_vars

\* a step has advanced the lookahead index to a point that is not the last
C9_Witness ==
    /\ rpc = "while"
    /\ rs.timestep >= 1
    /\ rs.li > 0
    /\ rs.li < Len(traj) - 1

\* the signed angle from the vector (i-1 -> i) to the vector (i -> i+1) at the
\* interior point of 0-based index k, brought into (-pi, pi]
TurnAngle(pts, k) ==
    LET angle == atan2(pts[k+2].y - pts[k+1].y, pts[k+2].x - pts[k+1].x)
                 - atan2(pts[k+1].y - pts[k].y, pts[k+1].x - pts[k].x)
    IN  IF angle > PI THEN angle - 2 * PI
        ELSE IF angle <= -PI THEN angle + 2 * PI
        ELSE angle

CurvaturePassDone == rpc \notin {"call", "fault"} /\ Len(traj) >= 1

\* C11: after the curvature pass on a trajectory of at least one point, the
\* first and the last point have curvature 0, every interior point has the
\* absolute value of the turn angle between (i-1 -> i) and (i -> i+1) normalised
\* into (-pi, pi], and so every curvature lies in [0, pi].
C11_CurvatureIsTurnAngle ==
    CurvaturePassDone =>
        /\ traj[1].curve = Some(0)
        /\ traj[Len(traj)].curve = Some(0)
        /\ \A k \in 1..(Len(traj) - 2) :
              traj[k + 1].curve = Some(Abs(TurnAngle(traj, k)))
        /\ \A k \in 1..Len(traj) :
              Val(traj[k].curve) >= 0 /\ Val(traj[k].curve) <= PI

(***************************************************************************)
(* Claims about the anchor list                                            *)
(***************************************************************************)
AnchorsWellFormed ==
    /\ Len(knownThetaIndexes) >= 1
    /\ AnchorIndex(1) = 0
    /\ \A k \in AnchorPairs : AnchorIndex(k) < AnchorIndex(k + 1)
    /\ \A k \in 1..Len(knownThetaIndexes) :
          AnchorIndex(k) >= 0 /\ AnchorIndex(k) < Len(points)

\* C12: for a list of at least 2 poses whose first pose has a heading (here even
\* with no two consecutive poses at one position), the anchor list handed to
\* interpolateTheta starts with index 0, has strictly increasing indices, all of
\* them valid indices of the emitted points, and the heading pass neither
\* divides by zero nor indexes outside the trajectory.
C12_AnchorsWellFormed ==
    [][ ( /\ interpolatePoints_theta
          /\ poses[1].theta # None
          /\ ~ HasCoincidentPair )
        => /\ AnchorsWellFormed'
           /\ fault' \notin {"ZeroDivisionError", "IndexError"} ]_vars

(***************************************************************************)
(* Path.interpolatePoints as one call, as the editing operations make it   *)
(***************************************************************************)
\* lines 394-409: the pairs from (k, k+1) on
RECURSIVE interpolatePoints_loop(_, _, _, _, _, _)
interpolatePoints_loop(ps, segD, k, pts, known, sp) ==
    IF k > Len(ps) - 1
    THEN [ points |-> pts, known |-> known, fault |-> "none" ]
    ELSE IF SamePosition(ps, k)
    THEN interpolatePoints_loop(ps, segD, k + 1, pts, known, sp)
    ELSE LET marked == IF ps[k].theta # None
                       THEN Append(known, << Len(pts), Val(ps[k].theta) >>)
                       ELSE known
             after(r) ==
                 IF r.fault # "none"
                 THEN [ points |-> r.points, known |-> marked, fault |-> r.fault ]
                 ELSE interpolatePoints_loop(ps, segD, k + 1, r.points, marked,
                                             IF ps[k+1].isBreak THEN 0 ELSE r.s)
         IN  CHOOSE res \in { after(r) : r \in { interpolateSplineCurve(ps, pts, k, sp, segD) } } :
                 TRUE

\* lines 411-417 after the loop has ended as l
interpolatePoints_end(ps, l) ==
    LET last == ps[Len(ps)]
        known == IF last.theta # None
                 THEN Append(l.known, << Len(l.points) - 1, Val(last.theta) >>)
                 ELSE l.known
    IN  IF l.fault # "none"
        THEN [ points |-> l.points, fault |-> l.fault ]
        ELSE interpolateTheta(l.points, known)

\* lines 385-417; result: the new self.points and the exception raised
interpolatePoints(ps, segD) ==
    IF Len(ps) < 2
    THEN [ points |-> ResetPoints(<< >>), fault |-> "none" ]
    ELSE CHOOSE res \in { interpolatePoints_end(ps, l) :
                            l \in { interpolatePoints_loop(ps, segD, 1, ResetPoints(<< >>), << >>, 0) } } :
             TRUE

(***************************************************************************)
(* The pose-editing operations of Path                                     *)
(***************************************************************************)
\* Pose.setVectorOffset
setVectorOffset(p, forward_x_pt, forward_y_pt) ==
    [ p EXCEPT !.forward_x = forward_x_pt - p.x, !.backward_x = p.x - forward_x_pt,
               !.forward_y = forward_y_pt - p.y, !.backward_y = p.y - forward_y_pt ]

\* del list[index] and list.insert(index, item), index 0-based
ListDelete(list, index) ==
    [ k \in 1..(Len(list) - 1) |-> IF k <= index THEN list[k] ELSE list[k + 1] ]

ListInsert(list, index, item) ==
    [ k \in 1..(Len(list) + 1) |->
        IF k <= index THEN list[k] ELSE IF k = index + 1 THEN item ELSE list[k - 1] ]

\* lines 103-111 without the hand-over of lines 109-110
deletePose_NoTransfer(ps, index) ==
    IF index = -1 THEN ps ELSE ListDelete(ps, index)

\* lines 103-111: Path.deletePose, index 0-based, -1 for a pose that is not in the list
deletePose(ps, index) ==
    IF index = -1
    THEN ps
    ELSE IF index = 0 /\ Len(ps) > 1 /\ ps[2].theta = None
    THEN ListDelete([ ps EXCEPT ![2].theta = ps[1].theta ], index)
    ELSE ListDelete(ps, index)

\* lines 300-311: Path.addPose up to its interpolatePoints call; (px, py) is what
\* getMousePosePosition returned
addPose(ps, pathIndex, px, py, fx, fy) ==
    IF pathIndex = -1
    THEN Append(ps, Pose(px, py, fx, fy, IF Len(ps) = 0 THEN Some(-(PI \div 2)) ELSE None))
    ELSE ListInsert(ps, pathIndex + 1, Pose(px, py, fx, fy, None))

\* self.poses becomes ps and self.interpolatePoints() runs (lines 149, 158, 175,
\* 265, 313); an exception it raises ends the session
Reinterpolated(ps) ==
    \E r \in { interpolatePoints(ps, segmentDistance) } :
        /\ poses' = ps
        /\ points' = r.points
        /\ fault' = r.fault
        /\ pc' = IF r.fault # "none" THEN "fault" ELSE "edit"

\* what the mouse does in the frames drawn
MouseAngles == { PI \div 2 }            \* atan2 of the mouse direction, line 156
HandleDrags == { <<0, 0>>, <<2 * F, 0>> }   \* mouse position relative to the pose, line 147
PoseSpacing == 3 * F                    \* a new pose is put this far past the pose before it
MaxEditPoses == 3                       \* longest pose list an editing session builds
MaxX == (MaxEditPoses - 1) * PoseSpacing    \* the right edge of the field

\* lines 136-137: the button is up, the selection ends
handleMouseHeading_release ==
    /\ pc = "edit"
    /\ poseSelectHeading # None
    /\ poseSelectHeading' = None
    /\ UNCHANGED selectVectorNotHeading
    /\ UNCHANGED pathVars
    /\ UNCHANGED robotVars

\* lines 140-149: the control point of the selected pose follows the mouse
handleMouseHeading_vector ==
    /\ pc = "edit"
    /\ poseSelectHeading # None
    /\ selectVectorNotHeading
    /\ \E d \in HandleDrags :
         LET at == Val(poseSelectHeading)
             p == poses[at]
         IN  IF distance(p.x + d[1], p.y + d[2], p.x, p.y) > F
             THEN Reinterpolated([ poses EXCEPT ![at] = setVectorOffset(p, p.x + d[1], p.y + d[2]) ])
             ELSE UNCHANGED <<poses, points, fault, pc>>
    /\ UNCHANGED <<segmentDistance, knownThetaIndexes, s, i, entry>>
    /\ UNCHANGED mouseVars
    /\ UNCHANGED robotVars

\* lines 140-142, 151-158: the heading of the selected pose is set, or cleared
\* when the mouse is close and the pose is not the first
handleMouseHeading_heading ==
    /\ pc = "edit"
    /\ poseSelectHeading # None
    /\ ~ selectVectorNotHeading
    /\ \E close \in BOOLEAN, angle \in MouseAngles :
         LET at == Val(poseSelectHeading)
         IN  Reinterpolated([ poses EXCEPT ![at].theta =
                                IF at # 1 /\ close THEN None ELSE Some(angle) ])
    /\ UNCHANGED <<segmentDistance, knownThetaIndexes, s, i, entry>>
    /\ UNCHANGED mouseVars
    /\ UNCHANGED robotVars

\* lines 164, 176-179: a hovered pose is picked for its heading (c) or its
\* control point (v)
handleHoveringOverPoses_select ==
    /\ pc = "edit"
    /\ poseSelectHeading = None
    /\ \E at \in 1..Len(poses), v \in BOOLEAN :
         /\ poseSelectHeading' = Some(at)
         /\ selectVectorNotHeading' = v
    /\ UNCHANGED pathVars
    /\ UNCHANGED robotVars

\* lines 164, 173-175: the hovered pose is deleted
handleHoveringOverPoses_delete(at) ==
    /\ pc = "edit"
    /\ poseSelectHeading = None
    /\ at \in 1..Len(poses)
    /\ Reinterpolated(deletePose(poses, at - 1))
    /\ UNCHANGED <<segmentDistance, knownThetaIndexes, s, i, entry>>
    /\ UNCHANGED mouseVars
    /\ UNCHANGED robotVars

\* lines 248-268: the edge pathIndex is deleted: the whole path when it has 2
\* poses, else the pose of the edge that is nearer to the mouse
handleMouse_deleteEdge(index) ==
    /\ pc = "edit"
    /\ poseSelectHeading = None
    /\ \E pathIndex \in 0..(Len(poses) - 2) :
         /\ index \in {pathIndex, pathIndex + 1}
         /\ IF Len(poses) = 2
            THEN /\ poses' = << >>
                 /\ points' = << >>
                 /\ UNCHANGED <<fault, pc>>
            ELSE Reinterpolated(deletePose(poses, index))
    /\ UNCHANGED <<segmentDistance, knownThetaIndexes, s, i, entry>>
    /\ UNCHANGED mouseVars
    /\ UNCHANGED robotVars

\* lines 248-250, 270-274: a right click away from every pose and inside the
\* field adds a pose, at the end or on the hovered edge, and selects the last
\* pose's control point
handleMouse_addPose ==
    /\ pc = "edit"
    /\ Len(poses) < MaxEditPoses
    /\ \E pathIndex \in {-1} \cup (0..(Len(poses) - 2)) :
         /\ poseSelectHeading # None => pathIndex = -1
         /\ LET px == IF Len(poses) = 0 THEN 0
                      ELSE IF pathIndex = -1 THEN poses[Len(poses)].x + PoseSpacing
                      ELSE poses[pathIndex + 1].x + PoseSpacing
                ps == addPose(poses, pathIndex, px, 0, px + 3 * F, 3 * F)
            IN  /\ px <= MaxX
                /\ pathIndex # -1 => px < poses[pathIndex + 2].x
                /\ Reinterpolated(ps)
                /\ IF pc' = "fault"
                   THEN UNCHANGED mouseVars
                   ELSE /\ poseSelectHeading' = Some(Len(ps))
                        /\ selectVectorNotHeading' = TRUE
    /\ UNCHANGED <<segmentDistance, knownThetaIndexes, s, i, entry>>
    /\ UNCHANGED robotVars

\* Path.__init__ (lines 83-93) and a mouse that has selected nothing
InitEdit ==
    /\ poses = << >>
    /\ points = << >>
    /\ segmentDistance \in SegmentDistances
    /\ knownThetaIndexes = << >>
    /\ s = 0
    /\ i = 0
    /\ pc = "edit"
    /\ fault = "none"
    /\ entry = [ points |-> << >>, rerun |-> FALSE ]
    /\ MouseUnused
    /\ RobotUnused

NextEdit ==
    \/ handleMouseHeading_release
    \/ handleMouseHeading_vector
    \/ handleMouseHeading_heading
    \/ handleHoveringOverPoses_select
    \/ \E at \in 1..MaxEditPoses : handleHoveringOverPoses_delete(at)
    \/ \E index \in 0..(MaxEditPoses - 1) : handleMouse_deleteEdge(index)
    \/ handleMouse_addPose

SpecEdit == InitEdit /\ [][NextEdit]_vars

(***************************************************************************)
(* Claims about the editing operations                                     *)
(***************************************************************************)
FirstPoseHasHeading == Len(poses) >= 1 => poses[1].theta # None

\* the first of at least two poses is deleted in this step
DeletesFirstPose ==
    /\ Len(poses) >= 2
    /\ \/ handleHoveringOverPoses_delete(1)
       \/ (Len(poses) > 2 /\ handleMouse_deleteEdge(0))

\* C13: after any sequence of addPose (at the end or on an edge), deletePose,
\* deleting the edge of a 2-pose path and setting or clearing a heading through
\* handleMouseHeading, a non-empty pose list has a first pose with a heading;
\* and deleting the first pose gives its heading to the new first pose when that
\* one has none (and leaves the new first pose's own heading otherwise).
C13_FirstPoseHasHeading ==
    /\ [] FirstPoseHasHeading
    /\ [][ DeletesFirstPose =>
             poses'[1].theta = IF poses[2].theta = None THEN poses[1].theta
                               ELSE poses[2].theta ]_vars

\* the first pose was deleted, its heading went to a pose that had none, and
\* that pose is now the first of a path that still has a trajectory
C13_Witness ==
    /\ pc = "edit"
    /\ Len(poses) >= 2
    /\ poses[1].x # 0
    /\ poses[1].theta = Some(-(PI \div 2))
    /\ \E k \in 2..Len(poses) : poses[k].theta = None
    /\ Len(points) >= 2

====
